---- MODULE Spec2Model ----
(***************************************************************************)
(* A model of the viewer controller `Inner`                                *)
(* (src/packages/rpv/src/layouts/Inner.tsx): the React state it owns       *)
(* (currentPage, rotation, scale), the values its handlers capture at each *)
(* render, the viewer-state ref behind setViewerState/getViewerState, the  *)
(* plugin hooks (also one that throws), the slot chain negotiated at       *)
(* render, the asynchronous file read of openFile, the named actions, the  *)
(* matches and the pending destinations of jumpToDest.                     *)
(***************************************************************************)
EXTENDS Integers, Sequences, FiniteSets, Bags, TLC

\* ------------------------------------------------------------------ bounds
\* doc.numPages of the document handed to the controller.
NumPages == 3
\* Longest plugin list.
MaxPlugins == 2
\* pageSize.pageWidth and pageSize.pageHeight of the document.
PageWidth == 2
PageHeight == 3
\* The page container is (SCROLL_BAR_WIDTH + 1 .. SCROLL_BAR_WIDTH + MaxExtent)
\* wide and (2 * PAGE_PADDING + 1 .. 2 * PAGE_PADDING + MaxExtent) high.
MaxExtent == 2
\* Visibility ratios are 0/RatioDen .. RatioDen/RatioDen.
RatioDen == 2
\* The most jumpToDest calls waiting for their page at one time.
MaxPending == 1
\* The most file reads openFile starts in one run.
MaxReads == 2
\* The most renders whose handlers a plugin keeps beyond the next render.
MaxKept == 1

\* ------------------------------------------------------- program constants
SCROLL_BAR_WIDTH == 17
PAGE_PADDING == 8

\* ---------------------------------------------------------------- numbers
\* JavaScript numbers that are not integers are kept as fractions in lowest
\* terms, <<numerator, denominator>> with denominator > 0.
RECURSIVE GCD(_, _)
GCD(a, b) == IF b = 0 THEN a ELSE GCD(b, a % b)

Rat(n, d) == LET g == GCD(n, d) IN <<n \div g, d \div g>>

RatLess(a, b) == a[1] * b[2] < b[1] * a[2]

MathMin(a, b) == IF RatLess(b, a) THEN b ELSE a

One == Rat(1, 1)

\* pageSize.scale, the initial value of the scale state.
InitialScale == One

\* ------------------------------------------------- operations and events
\* An operation is <<name, argument>> and an event <<callback, value>>: tuples,
\* so that two of them with different names compare unequal whatever their
\* arguments are.
Op(name, arg) == <<name, arg>>

OpName(op) == op[1]

OpArg(op) == op[2]

Event(cb, val) == <<cb, val>>

Cb(event) == event[1]

Val(event) == event[2]

\* ---------------------------------------------------------------- plugins
\* A plugin is the set of optional hooks it defines.  onViewerStateChange is
\* "none" (not defined), "id" (returns its argument), "set90" (returns the
\* state with rotation 90), "inc" (returns the state with rotation + 1) or
\* "throw180" (throws when handed a state with rotation 180, returns its
\* argument otherwise).
\* renderViewer is "none", "id" (returns props.slot), "wrap" (returns a new
\* level whose subSlot is props.slot) or "replace" (returns a new level with
\* no subSlot).
PluginKinds ==
    { [install |-> TRUE,  uninstall |-> TRUE,  onDocumentLoad |-> TRUE,
       onViewerStateChange |-> "set90", renderViewer |-> "wrap"],
      [install |-> TRUE,  uninstall |-> FALSE, onDocumentLoad |-> FALSE,
       onViewerStateChange |-> "inc",   renderViewer |-> "wrap"],
      [install |-> FALSE, uninstall |-> TRUE,  onDocumentLoad |-> FALSE,
       onViewerStateChange |-> "none",  renderViewer |-> "none"],
      [install |-> FALSE, uninstall |-> FALSE, onDocumentLoad |-> TRUE,
       onViewerStateChange |-> "id",    renderViewer |-> "replace"] }

PluginLists == UNION { [1..n -> PluginKinds] : n \in 0..MaxPlugins }

\* Plugins that keep the capability object of install and whose hooks hand
\* back what they are given.
QuietKinds ==
    { [install |-> TRUE,  uninstall |-> TRUE,  onDocumentLoad |-> FALSE,
       onViewerStateChange |-> "id",    renderViewer |-> "id"],
      [install |-> TRUE,  uninstall |-> FALSE, onDocumentLoad |-> TRUE,
       onViewerStateChange |-> "none",  renderViewer |-> "none"] }

QuietLists == UNION { [1..n -> QuietKinds] : n \in 0..MaxPlugins }

\* The same and a plugin whose hook throws when the rotation is 180; none of
\* them throws for the states of the mount, whose rotation is 0.
FaultKinds ==
    QuietKinds \cup
    { [install |-> TRUE,  uninstall |-> TRUE,  onDocumentLoad |-> FALSE,
       onViewerStateChange |-> "throw180", renderViewer |-> "none"] }

FaultLists == UNION { [1..n -> FaultKinds] : n \in 0..MaxPlugins }

\* plugin.onViewerStateChange(s) throws.
Throws(kind, s) == kind = "throw180" /\ s.rotation = 180

\* One call of plugin.onViewerStateChange(s) that returns.
ApplyHook(kind, s) ==
    CASE kind = "set90" -> [s EXCEPT !.rotation = 90]
      [] kind = "inc"   -> [s EXCEPT !.rotation = s.rotation + 1]
      [] OTHER          -> s

\* -------------------------------------------------------- setViewerState
\* The forEach of setViewerState over plugins i..Len(ps): the state it ends
\* with, in call order every hook call that returned, and the plugin whose
\* hook threw and so ended the forEach (0 when none did; newState is then s).
RECURSIVE HooksFrom(_, _, _)
HooksFrom(ps, i, s) ==
    IF i > Len(ps) THEN [state |-> s, trace |-> <<>>, thrower |-> 0]
    ELSE IF ps[i].onViewerStateChange # "none"
         THEN IF Throws(ps[i].onViewerStateChange, s)
              THEN [state |-> s, trace |-> <<>>, thrower |-> i]
              ELSE LET o == ApplyHook(ps[i].onViewerStateChange, s)
                       r == HooksFrom(ps, i + 1, o)
                   IN  [state |-> r.state,
                        trace |-> <<[plugin |-> i, input |-> s, output |-> o]>> \o r.trace,
                        thrower |-> r.thrower]
         ELSE HooksFrom(ps, i + 1, s)

\* A setViewerState that hands every hook the state it was called with.
RunHooksUnchained(ps, s) ==
    LET hooked == SelectSeq([i \in 1..Len(ps) |-> i],
                            LAMBDA i : ps[i].onViewerStateChange # "none")
        tr == [k \in 1..Len(hooked) |->
                 [plugin |-> hooked[k], input |-> s,
                  output |-> ApplyHook(ps[hooked[k]].onViewerStateChange, s)]]
    IN  [state |-> IF tr = <<>> THEN s ELSE tr[Len(tr)].output, trace |-> tr,
         thrower |-> 0]

RunHooks(ps, s) == HooksFrom(ps, 1, s)

\* The viewerState prop: the snapshot the ref starts with.
FileName == "document.pdf"

InitialViewerState ==
    [file |-> FileName, pageIndex |-> 0, rotation |-> 0, scale |-> InitialScale]

\* The calls one setViewerState(s) makes, as events, in order; the call of a
\* hook that threw is the last of them.
SetEvents(ps, s) ==
    LET r == RunHooks(ps, s) IN
    <<Event("setViewerState", s)>> \o
    [k \in 1..Len(r.trace) |-> Event("onViewerStateChange", r.trace[k])] \o
    (IF r.thrower # 0
     THEN <<Event("hookThrew",
                  [plugin |-> r.thrower,
                   input |-> IF r.trace = <<>> THEN s
                             ELSE r.trace[Len(r.trace)].output])>>
     ELSE <<>>)

\* ------------------------------------------------------------ slot chain
\* A slot chain is the sequence of its levels, outermost first: the subSlot
\* of a level is the rest of the sequence.
BaseSlot == <<[kind |-> "container", by |-> 0], [kind |-> "pages", by |-> 0]>>

\* One call of plugin i's renderViewer({..., slot}).
ApplyRender(kind, i, slot) ==
    CASE kind = "wrap"    -> <<[kind |-> "wrap", by |-> i]>> \o slot
      [] kind = "replace" -> <<[kind |-> "wrap", by |-> i]>>
      [] OTHER            -> slot

\* The forEach of renderViewer over plugins i..Len(ps).
RECURSIVE RenderFrom(_, _, _)
RenderFrom(ps, i, slot) ==
    IF i > Len(ps) THEN [slot |-> slot, trace |-> <<>>]
    ELSE IF ps[i].renderViewer # "none"
         THEN LET o == ApplyRender(ps[i].renderViewer, i, slot)
                  r == RenderFrom(ps, i + 1, o)
              IN  [slot |-> r.slot,
                   trace |-> <<[plugin |-> i, input |-> slot, output |-> o]>> \o r.trace]
         ELSE RenderFrom(ps, i + 1, slot)

\* A renderViewer that offers every plugin the baseline chain.
RenderViewerUnchained(ps) ==
    LET hooked == SelectSeq([i \in 1..Len(ps) |-> i],
                            LAMBDA i : ps[i].renderViewer # "none")
        tr == [k \in 1..Len(hooked) |->
                 [plugin |-> hooked[k], input |-> BaseSlot,
                  output |-> ApplyRender(ps[hooked[k]].renderViewer, hooked[k], BaseSlot)]]
    IN  [slot |-> IF tr = <<>> THEN BaseSlot ELSE tr[Len(tr)].output, trace |-> tr]

RenderViewer(ps) == RenderFrom(ps, 1, BaseSlot)

\* renderSlot: the nested divs, <<attrs of the div, its child div if any>>.
RECURSIVE RenderSlot(_)
RenderSlot(slot) ==
    <<Head(slot), IF Len(slot) > 1 THEN <<RenderSlot(Tail(slot))>> ELSE <<>> >>

RECURSIVE Depth(_)
Depth(dom) == 1 + (IF dom[2] = <<>> THEN 0 ELSE Depth(dom[2][1]))

\* pagesRef and the pageRefs are attached when the level that carries them
\* is part of the materialized chain.
PagesRendered(slot) == \E k \in 1..Len(slot) : slot[k].kind = "pages"

\* ------------------------------------------------------------- navigation
\* A guard that lets pageIndex = numPages through.
JumpIgnoredOffByOne(pageIndex) == pageIndex < 0 \/ pageIndex > NumPages

\* A guard that checks the lower end of the range only.
JumpIgnoredBelow(pageIndex) == pageIndex < 0

\* The guard of jumpToPage.
JumpIgnored(pageIndex) == pageIndex < 0 \/ pageIndex >= NumPages

\* scrollTop is 0 at first and then targetPage.offsetTop + top, kept as the
\* page and the offset added to it.
Zero == Rat(0, 1)

InitialScroll == [page |-> -1, top |-> Zero]

OffsetTop(pageIndex) == [page |-> pageIndex, top |-> Zero]

\* ---------------------------------------------------------- named actions
\* The switch of executeNamedAction: whether it calls jumpToPage when the
\* handler sees currentPage c, and with which page.
NamedActionJumps(action, c) ==
    CASE action = "FirstPage" -> TRUE
      [] action = "LastPage"  -> TRUE
      [] action = "NextPage"  -> c + 1 < NumPages
      [] action = "PrevPage"  -> c - 1 >= 0
      [] OTHER                -> FALSE

\* A switch whose NextPage and PrevPage cases are exchanged.
NamedActionPageExchanged(action, c) ==
    CASE action = "FirstPage" -> 0
      [] action = "LastPage"  -> NumPages - 1
      [] action = "NextPage"  -> c - 1
      [] OTHER                -> c + 1

NamedActionPage(action, c) ==
    CASE action = "FirstPage" -> 0
      [] action = "LastPage"  -> NumPages - 1
      [] action = "NextPage"  -> c + 1
      [] OTHER                -> c - 1

NamedActions == {"FirstPage", "LastPage", "NextPage", "PrevPage", "GoBack", "GoForward"}

\* ------------------------------------------------------------------- zoom
\* The argument of zoom: a SpecialZoomLevel or a number.
Number(v) == [level |-> "Number", value |-> v]

Level(l) == [level |-> l, value |-> Zero]

Undefined == Level("Undefined")

ZoomArgs == { Level("ActualSize"), Level("PageFit"), Level("PageWidth"),
              Number(Rat(2, 1)) }

Truthy(arg) == arg.level # "Undefined" /\ ~(arg.level = "Number" /\ arg.value[1] = 0)

\* A zoom without the early return.
ZoomNeverIgnored(pagesEle) == FALSE

\* The early return of zoom.
ZoomIgnored(pagesEle) == ~pagesEle

\* A switch whose PageFit takes the padding of one edge only.
UpdateScaleOnePadding(newScale, offsetWidth, offsetHeight) ==
    CASE newScale.level = "ActualSize" -> One
      [] newScale.level = "PageFit" ->
            MathMin(Rat(offsetWidth - SCROLL_BAR_WIDTH, PageWidth),
                    Rat(offsetHeight - PAGE_PADDING, PageHeight))
      [] newScale.level = "PageWidth" ->
            Rat(offsetWidth - SCROLL_BAR_WIDTH, PageWidth)
      [] OTHER -> newScale.value

\* The switch of zoom, with offsetWidth and offsetHeight of the container.
UpdateScale(newScale, offsetWidth, offsetHeight) ==
    CASE newScale.level = "ActualSize" -> One
      [] newScale.level = "PageFit" ->
            MathMin(Rat(offsetWidth - SCROLL_BAR_WIDTH, PageWidth),
                    Rat(offsetHeight - 2 * PAGE_PADDING, PageHeight))
      [] newScale.level = "PageWidth" ->
            Rat(offsetWidth - SCROLL_BAR_WIDTH, PageWidth)
      [] OTHER -> newScale.value

Widths == { SCROLL_BAR_WIDTH + k : k \in 1..MaxExtent }

Heights == { 2 * PAGE_PADDING + k : k \in 1..MaxExtent }

\* -------------------------------------------------------------- jumpToDest
\* The early return of jumpToDest.
DestIgnored(pagesContainer) == ~pagesContainer

\* top, for a page whose viewport at scale 1 is PageHeight high: 0 for
\* PageFit and (viewport.height - bottom) * scale for every other scaleTo.
DestTop(scaleTo, bottomOffset, s) ==
    IF scaleTo.level = "PageFit" THEN Zero
    ELSE Rat((PageHeight - bottomOffset) * s[1], s[2])

\* A resolution that scrolls whether or not the target page is attached.
DestScrollsAlways(targetPageEle) == TRUE

\* if (targetPageEle) of the resolution.
DestScrolls(targetPageEle) == targetPageEle

\* A pending jumpToDest: its arguments and what the handlers of its render
\* see (c).
Dest(pageIndex, bottomOffset, scaleTo, c) ==
    [pageIndex |-> pageIndex, bottomOffset |-> bottomOffset, scaleTo |-> scaleTo, c |-> c]

\* -------------------------------------------------------- page visibility
\* The reduce of pageVisibilityChanged over array[index..], maxIndex so far.
RECURSIVE ReduceMax(_, _, _)
ReduceMax(array, index, maxIndex) ==
    IF index >= Len(array) THEN maxIndex
    ELSE ReduceMax(array, index + 1,
                   IF array[index + 1] > array[maxIndex + 1] THEN index ELSE maxIndex)

\* A reduce whose comparison is >=, so that the last of several maxima wins.
RECURSIVE ReduceMaxOrEqual(_, _, _)
ReduceMaxOrEqual(array, index, maxIndex) ==
    IF index >= Len(array) THEN maxIndex
    ELSE ReduceMaxOrEqual(array, index + 1,
                          IF array[index + 1] >= array[maxIndex + 1] THEN index ELSE maxIndex)

MaxRatioPageLast(array) == ReduceMaxOrEqual(array, 0, 0)

\* maxRatioPage; page index p is element p + 1 of the sequence.
MaxRatioPage(array) == ReduceMax(array, 0, 0)

NoRatios == [p \in 1..NumPages |-> 0]

\* ---------------------------------------------------------------- openFile
\* A file name is the sequence of its characters.
FileNames ==
    { <<"a", ".", "p", "d", "f">>, <<"a", ".", "P", "D", "F">>,
      <<"a", ".", "t", "x", "t">>,
      <<"a", ".", "p", "d", "f", ".", "t", "x", "t">> }

LowerChar(c) ==
    CASE c = "P" -> "p" [] c = "D" -> "d" [] c = "F" -> "f" [] OTHER -> c

ToLowerCase(str) == [k \in 1..Len(str) |-> LowerChar(str[k])]

\* Position of the last "." of name, 0 when there is none.
RECURSIVE LastDot(_, _)
LastDot(name, k) ==
    IF k = 0 THEN 0 ELSE IF name[k] = "." THEN k ELSE LastDot(name, k - 1)

\* getFileExt: what follows the last "." of a name that has one.
GetFileExt(name) == SubSeq(name, LastDot(name, Len(name)) + 1, Len(name))

\* Position of the first "." of name at or after k, Len(name) + 1 when none.
RECURSIVE FirstDot(_, _)
FirstDot(name, k) ==
    IF k > Len(name) THEN k ELSE IF name[k] = "." THEN k ELSE FirstDot(name, k + 1)

\* A check of what follows the first "." up to the next one.
OpenIgnoredFirstExt(name) ==
    LET d == FirstDot(name, 1)
        e == FirstDot(name, d + 1)
    IN  ToLowerCase(SubSeq(name, d + 1, e - 1)) # <<"p", "d", "f">>

\* The early return of openFile.
OpenIgnored(name) == ToLowerCase(GetFileExt(name)) # <<"p", "d", "f">>

\* --------------------------------------------------------------- lifecycle
Indices(ps) == [i \in 1..Len(ps) |-> i]

\* The plugins the install forEach calls, in call order.
InstallOrder(ps) == SelectSeq(Indices(ps), LAMBDA i : ps[i].install)

Reverse(seq) == [k \in 1..Len(seq) |-> seq[Len(seq) + 1 - k]]

\* An uninstall pass that walks the plugin list backwards.
UninstallOrderReversed(ps) ==
    Reverse(SelectSeq(Indices(ps), LAMBDA i : ps[i].uninstall))

\* The plugins the uninstall forEach calls, in call order.
UninstallOrder(ps) == SelectSeq(Indices(ps), LAMBDA i : ps[i].uninstall)

\* The plugins whose onDocumentLoad the mount effect calls, in call order.
DocumentLoadOrder(ps) == SelectSeq(Indices(ps), LAMBDA i : ps[i].onDocumentLoad)

Events(cb, vals) == [k \in 1..Len(vals) |-> Event(cb, vals[k])]

RenderEvents(trace) == [k \in 1..Len(trace) |-> Event("renderViewer", trace[k])]

\* ------------------------------------------------------------------- state
VARIABLES
    plugins,        \* the plugins prop
    phase,          \* "init" (not rendered yet), "mounted" (from the first commit
                    \* on), "unmounted"
    currentPage,    \* useState: currentPage
    rotation,       \* useState: rotation
    scale,          \* useState: scale
    scheduled,      \* React has a re-render of Inner scheduled: a setter queued
                    \* an update
    cl,             \* currentPage, rotation, scale as the last render's handlers see
                    \* them, and the match it handed to the page layers
    pageVisibility, \* the pageVisibility array of the last render
    effectPending,  \* the [currentPage] effect of the last render has not run yet
    matchFresh,     \* the match is another object than the one of the last render
    stale,          \* the last render of Inner worked off queued updates and was
                    \* committed: React has not cleared the mark of that work on
                    \* both fibers of Inner yet, and queues the next setter call
                    \* whatever its value
    mountPending,   \* empty once the effects of the first render have run; before,
                    \* the initialPage and defaultScale props they will read
    stateRef,       \* stateRef.current
    pagesEle,       \* pagesRef.current and the pageRefs are attached
    scrollTop,      \* pagesRef.current.scrollTop
    slot,           \* the chain renderViewer returned at the last render
    dom,            \* what renderSlot made of it
    renderTrace,    \* the renderViewer hook calls of the last render
    pendingReads,   \* the bag of the names of the files whose FileReader has not
                    \* fired onload: one copy for each openFile call
    delivered,      \* the names passed to the host's onOpenFile so far, in call order
    kept,           \* the handlers a plugin was handed by renderViewer at an
                    \* earlier render and has kept, each with what it reads of
                    \* that render
    installLog,     \* plugins whose install was called, in call order
    uninstallLog,   \* plugins whose uninstall was called, in call order
    lastOp,         \* the operation of the last step: its name and its argument
                    \* (for getViewerState, what it returned; for
                    \* pageVisibilityChanged, also the maxRatioPage it computed)
    out,            \* the host callbacks and plugin hooks the last step called, in order
    lastSet,        \* the last setViewerState call: its argument, its hook calls
                    \* and the plugin whose hook threw (0 when none did)
    match,          \* useState: match
    pendingDest,    \* the jumpToDest calls whose doc.getPage promise has not resolved
    reported        \* per page, the ratio of its most recent visibility report

reactVars == <<currentPage, rotation, scale, scheduled>>
renderVars == <<cl, pageVisibility, effectPending, matchFresh, stale, pagesEle, slot, dom,
                renderTrace>>
storeVars == <<stateRef, lastSet>>
fileVars == <<pendingReads, delivered>>
lifeVars == <<plugins, phase, mountPending, kept, installLog, uninstallLog>>
layerVars == <<match, pendingDest, reported>>
vars == <<reactVars, renderVars, storeVars, fileVars, lifeVars, layerVars, scrollTop,
          lastOp, out>>

\* The initial match: the "no match" sentinel.
NoMatch == [matchIndex |-> -1, pageIndex |-> -1]

\* What the handlers of the first render see; the capability object built by
\* the install effect holds these handlers, and so do the plugins whose
\* renderViewer was called at the first render.
FirstClosure ==
    [currentPage |-> 0, rotation |-> 0, scale |-> InitialScale, match |-> NoMatch]

ViewerStateOf(c) ==
    [file |-> FileName, pageIndex |-> c.currentPage, rotation |-> c.rotation,
     scale |-> c.scale]

HasInstall == \E i \in 1..Len(plugins) : plugins[i].install

HasRenderViewer == \E i \in 1..Len(plugins) : plugins[i].renderViewer # "none"

HasUninstall == \E i \in 1..Len(plugins) : plugins[i].uninstall

\* A plugin holds the capability object: plugin.install was handed it when
\* the install effect ran, plugin.uninstall when its cleanup ran.
HoldsCapability ==
    \/ HasInstall /\ phase # "init" /\ mountPending = {}
    \/ HasUninstall /\ phase = "unmounted"

\* What a handler reads of the render c that made it: rotate reads
\* currentPage and scale, zoom reads currentPage and rotation, jumpToPage
\* and openFile read nothing of it.
Reads(handler, c) ==
    CASE handler = "rotate" -> [currentPage |-> c.currentPage, scale |-> c.scale]
      [] handler = "zoom" -> [currentPage |-> c.currentPage, rotation |-> c.rotation]
      [] OTHER -> <<>>

\* What the handlers read that somebody can call: via "first" those of the
\* first render (the capability object is made of them, and the first
\* renderViewer calls were handed them), via "render" those handed to
\* plugin.renderViewer at the last render, via "kept" those of a render in
\* between that a plugin has kept.
Closures(via, handler) ==
    CASE via = "first" ->
            IF HoldsCapability \/ (HasRenderViewer /\ phase # "init")
            THEN {Reads(handler, FirstClosure)} ELSE {}
      [] via = "render" ->
            IF HasRenderViewer /\ phase # "init" THEN {Reads(handler, cl)} ELSE {}
      [] OTHER -> {k.reads : k \in {x \in kept : x.handler = handler}}

\* Somebody holds the handler.
CanCall(via, handler) == Closures(via, handler) # {}

\* The state before the first render of a viewer given one of lists as its
\* plugins prop.
Start(lists) ==
    /\ plugins \in lists
    /\ phase = "init"
    /\ currentPage = 0
    /\ rotation = 0
    /\ scale = InitialScale
    /\ scheduled = FALSE
    /\ stale = FALSE
    /\ kept = {}
    /\ cl = FirstClosure
    /\ pageVisibility = NoRatios
    /\ effectPending = FALSE
    /\ matchFresh = FALSE
    /\ mountPending = {}
    /\ stateRef = InitialViewerState
    /\ pagesEle = FALSE
    /\ scrollTop = InitialScroll
    /\ slot = <<>>
    /\ dom = <<>>
    /\ renderTrace = <<>>
    /\ pendingReads = EmptyBag
    /\ delivered = <<>>
    /\ installLog = <<>>
    /\ uninstallLog = <<>>
    /\ lastOp = Op("none", 0)
    /\ out = <<>>
    /\ lastSet = [called |-> FALSE, arg |-> InitialViewerState, trace |-> <<>>,
                  thrower |-> 0]
    /\ match = NoMatch
    /\ pendingDest = {}
    /\ reported = NoRatios

Init == Start(PluginLists)

\* A setViewerState that stores its argument and drops what the hooks returned.
StoreArgument(s) ==
    /\ stateRef' = s
    /\ lastSet' = [called |-> TRUE, arg |-> s, trace |-> RunHooks(plugins, s).trace,
                   thrower |-> RunHooks(plugins, s).thrower]

\* A setViewerState that stores what the hooks made of the state before one
\* of them threw.
StoreReached(s) ==
    /\ stateRef' = RunHooks(plugins, s).state
    /\ lastSet' = [called |-> TRUE, arg |-> s, trace |-> RunHooks(plugins, s).trace,
                   thrower |-> RunHooks(plugins, s).thrower]

\* setViewerState(s) as the last call of a step: a hook that throws leaves
\* the forEach before stateRef.current is assigned.
Store(s) ==
    /\ stateRef' = IF RunHooks(plugins, s).thrower # 0 THEN stateRef
                   ELSE RunHooks(plugins, s).state
    /\ lastSet' = [called |-> TRUE, arg |-> s, trace |-> RunHooks(plugins, s).trace,
                   thrower |-> RunHooks(plugins, s).thrower]

\* ----------------------------------------------------------------- render
\* An effect that runs after the first render only (a dependency list []).
EffectScheduledNever(previous, current) == FALSE

\* The dependency list [currentPage] of the page-change effect: it runs
\* after a render whose currentPage differs from the previous render's.
EffectScheduled(previous, current) == current # previous

\* One run of the component function and its commit: the handlers now see
\* the current state, pageVisibility is a new array of zeros, every
\* renderViewer hook is called, and the [currentPage] effect is scheduled
\* when currentPage differs from the previous render's.
RenderBody ==
    LET rv == RenderViewer(plugins) IN
    /\ cl' = [currentPage |-> currentPage, rotation |-> rotation, scale |-> scale,
              match |-> match]
    /\ pageVisibility' = NoRatios
    /\ slot' = rv.slot
    /\ dom' = RenderSlot(rv.slot)
    /\ renderTrace' = rv.trace
    /\ pagesEle' = PagesRendered(rv.slot)
    /\ effectPending' = EffectScheduled(cl.currentPage, currentPage)
    /\ matchFresh' = FALSE
    /\ stale' = scheduled
    /\ scheduled' = FALSE
    /\ out' = RenderEvents(rv.trace)
    /\ UNCHANGED <<currentPage, rotation, scale, storeVars, fileVars, lifeVars, layerVars,
                   scrollTop>>

\* A state differs from the one of the last render: numbers are compared
\* by value, the match by identity.
StateChanged ==
    \/ <<currentPage, rotation, scale>> # <<cl.currentPage, cl.rotation, cl.scale>>
    \/ matchFresh

\* React has a re-render of Inner to do.
Dirty == scheduled

\* Whether a re-render is scheduled after a step in which setters are called
\* (called) and one of them is handed a value other than the current state
\* (differs).  React drops a setter call handed the current state only when
\* no update is queued and no fiber of Inner carries the mark of earlier
\* work; a setter called on an unmounted viewer does nothing.
Sched(called, differs) ==
    scheduled \/ (called /\ phase = "mounted" /\ (stale \/ differs))

\* The re-render React has scheduled; the effects of the render before it
\* have run by then.  Inner runs and calls every renderViewer hook; when no
\* state differs from the last render's, React bails out and commits
\* nothing.
Render ==
    /\ phase = "mounted"
    /\ mountPending = {}
    /\ ~effectPending
    /\ Dirty
    /\ IF StateChanged
       THEN /\ RenderBody
            /\ lastOp' = Op("render", "state")
       ELSE /\ scheduled' = FALSE
            /\ stale' = FALSE
            /\ out' = RenderEvents(RenderViewer(plugins).trace)
            /\ lastOp' = Op("render", "bailout")
            /\ UNCHANGED <<currentPage, rotation, scale, cl, pageVisibility, effectPending,
                           matchFresh, pagesEle, slot, dom, renderTrace, storeVars,
                           fileVars, lifeVars, layerVars, scrollTop>>

\* A re-render caused by the parent component.
ParentRender ==
    /\ phase = "mounted"
    /\ mountPending = {}
    /\ ~effectPending
    /\ RenderBody
    /\ lastOp' = Op("render", "parent")

\* useEffect(..., [currentPage]) of the last render.  When a hook throws,
\* the error leaves the effect and React unmounts the tree, which runs the
\* cleanup of the install effect and detaches the refs.
Effect ==
    /\ effectPending
    /\ effectPending' = FALSE
    /\ Store(ViewerStateOf(cl))
    /\ lastOp' = Op("effect", cl.currentPage)
    /\ IF RunHooks(plugins, ViewerStateOf(cl)).thrower # 0
       THEN /\ phase' = "unmounted"
            /\ scheduled' = FALSE
            /\ stale' = FALSE
            /\ pagesEle' = FALSE
            /\ uninstallLog' = uninstallLog \o UninstallOrder(plugins)
            /\ out' = <<Event("onPageChange", cl.currentPage)>>
                      \o SetEvents(plugins, ViewerStateOf(cl))
                      \o Events("uninstall", UninstallOrder(plugins))
            /\ UNCHANGED <<plugins, mountPending, kept, installLog>>
       ELSE /\ out' = <<Event("onPageChange", cl.currentPage)>>
                      \o SetEvents(plugins, ViewerStateOf(cl))
            /\ UNCHANGED <<pagesEle, scheduled, stale, lifeVars>>
    /\ UNCHANGED <<currentPage, rotation, scale, cl, pageVisibility, matchFresh, slot, dom,
                   renderTrace, fileVars, layerVars, scrollTop>>

\* ------------------------------------------------------------------ mount
\* The first render and its commit, of a viewer given initialPage and
\* defaultScale: the renderViewer hooks are called and the refs attached.
\* React runs the effects later.
Mount(initialPage, defaultScale) ==
    /\ phase = "init"
    /\ LET rv == RenderViewer(plugins)
       IN  /\ phase' = "mounted"
           /\ mountPending' = {[initialPage |-> initialPage, defaultScale |-> defaultScale]}
           /\ cl' = FirstClosure
           /\ pageVisibility' = NoRatios
           /\ slot' = rv.slot
           /\ dom' = RenderSlot(rv.slot)
           /\ renderTrace' = rv.trace
           /\ pagesEle' = PagesRendered(rv.slot)
           /\ effectPending' = FALSE
           /\ matchFresh' = FALSE
           /\ stale' = FALSE
           /\ out' = RenderEvents(rv.trace)
           /\ lastOp' = Op("mount", <<initialPage, defaultScale>>)
    /\ UNCHANGED <<reactVars, storeVars, fileVars, plugins, kept, installLog,
                   uninstallLog, layerVars, scrollTop>>

\* The effects of the first render, in the order of the source, in an
\* offsetWidth x offsetHeight container: install, onDocumentLoad (and
\* jumpToPage(initialPage)), the [currentPage] effect, zoom(defaultScale).
\* Their handlers are those of the first render.
MountEffects(offsetWidth, offsetHeight) ==
    /\ phase = "mounted"
    /\ mountPending # {}
    /\ LET props == CHOOSE p \in mountPending : TRUE
           jump == props.initialPage # 0 /\ ~JumpIgnored(props.initialPage)
           vs3 == ViewerStateOf(FirstClosure)
           zm == Truthy(props.defaultScale) /\ ~ZoomIgnored(pagesEle)
           u == UpdateScale(props.defaultScale, offsetWidth, offsetHeight)
           vs4 == [vs3 EXCEPT !.scale = u]
       IN  /\ mountPending' = {}
           /\ installLog' = installLog \o InstallOrder(plugins)
           /\ currentPage' = IF jump THEN props.initialPage ELSE currentPage
           /\ scrollTop' = IF jump /\ pagesEle THEN OffsetTop(props.initialPage)
                           ELSE scrollTop
           /\ scale' = IF zm THEN u ELSE scale
           /\ scheduled' = Sched(jump \/ zm, (jump /\ props.initialPage # currentPage)
                                            \/ (zm /\ u # scale))
           /\ Store(IF zm THEN vs4 ELSE vs3)
           /\ out' = Events("install", InstallOrder(plugins))
                     \o <<Event("onDocumentLoad", 0)>>
                     \o Events("pluginDocumentLoad", DocumentLoadOrder(plugins))
                     \o <<Event("onPageChange", 0)>>
                     \o SetEvents(plugins, vs3)
                     \o (IF zm THEN <<Event("onZoom", u)>> \o SetEvents(plugins, vs4)
                         ELSE <<>>)
           /\ lastOp' = Op("mountEffects", <<offsetWidth, offsetHeight>>)
    /\ UNCHANGED <<plugins, phase, kept, uninstallLog, rotation, renderVars, fileVars,
                   layerVars>>

\* The cleanup of the install effect, once the effects have run; React
\* detaches the refs.
Unmount ==
    /\ phase = "mounted"
    /\ mountPending = {}
    /\ ~effectPending
    /\ phase' = "unmounted"
    /\ scheduled' = FALSE
    /\ stale' = FALSE
    /\ pagesEle' = FALSE
    /\ uninstallLog' = uninstallLog \o UninstallOrder(plugins)
    /\ out' = Events("uninstall", UninstallOrder(plugins))
    /\ lastOp' = Op("unmount", 0)
    /\ UNCHANGED <<currentPage, rotation, scale, cl, pageVisibility, effectPending,
                   matchFresh, slot, dom, renderTrace, storeVars, fileVars, plugins,
                   mountPending, kept, installLog, layerVars, scrollTop>>

\* A plugin keeps a handler its renderViewer was handed at the last render,
\* to call it after later renders.
Keep(handler) ==
    /\ CanCall("render", handler)
    /\ Cardinality(kept) < MaxKept
    /\ [handler |-> handler, reads |-> Reads(handler, cl)] \notin kept
    /\ kept' = kept \cup {[handler |-> handler, reads |-> Reads(handler, cl)]}
    /\ lastOp' = Op("keep", handler)
    /\ out' = <<>>
    /\ UNCHANGED <<reactVars, renderVars, storeVars, fileVars, plugins, phase, mountPending,
                   installLog, uninstallLog, layerVars, scrollTop>>

\* --------------------------------------------------------------- handlers
\* A state setter called after unmount changes nothing.
SetState(old, new) == IF phase = "mounted" THEN new ELSE old

\* The body of jumpToPage.
Jump(pageIndex) ==
    IF JumpIgnored(pageIndex)
    THEN UNCHANGED <<currentPage, scrollTop>>
    ELSE /\ scrollTop' = IF pagesEle THEN OffsetTop(pageIndex) ELSE scrollTop
         /\ currentPage' = SetState(currentPage, pageIndex)

\* jumpToPage(pageIndex) reaches its setCurrentPage.
JumpSets(pageIndex) == ~JumpIgnored(pageIndex)

\* The setCurrentPage of jumpToPage is handed another page than the current
\* one.
JumpQueues(pageIndex) == JumpSets(pageIndex) /\ pageIndex # currentPage

\* jumpToPage called by a plugin, through the capability object or the
\* props of renderViewer.
JumpToPage(pageIndex) ==
    /\ CanCall("first", "jumpToPage") \/ CanCall("render", "jumpToPage")
    /\ lastOp' = Op("jumpToPage", pageIndex)
    /\ out' = <<>>
    /\ Jump(pageIndex)
    /\ scheduled' = Sched(JumpSets(pageIndex), JumpQueues(pageIndex))
    /\ UNCHANGED <<rotation, scale, renderVars, storeVars, fileVars, lifeVars, layerVars>>

\* onExecuteNamedAction of a page layer of the last render.
ExecuteNamedAction(action) ==
    /\ phase = "mounted"
    /\ pagesEle
    /\ lastOp' = Op("executeNamedAction", action)
    /\ out' = <<>>
    /\ IF NamedActionJumps(action, cl.currentPage)
       THEN /\ Jump(NamedActionPage(action, cl.currentPage))
            /\ scheduled' = Sched(JumpSets(NamedActionPage(action, cl.currentPage)),
                                  JumpQueues(NamedActionPage(action, cl.currentPage)))
       ELSE UNCHANGED <<currentPage, scrollTop, scheduled>>
    /\ UNCHANGED <<rotation, scale, renderVars, storeVars, fileVars, lifeVars, layerVars>>

\* The objects a caller can hand to setMatch: a new one, the one that is
\* the current match, the one the last render holds.
MatchObjects == {"new", "current", "rendered"}

\* jumpToMatch of the last render, handed the object `object` whose value is
\* target.  React compares the objects by identity.
JumpToMatch(target, object) ==
    /\ phase = "mounted"
    /\ object = "current" => target = match
    /\ object = "rendered" => target = cl.match
    /\ lastOp' = Op("jumpToMatch", target)
    /\ out' = <<>>
    /\ Jump(target.pageIndex)
    /\ match' = SetState(match, target)
    /\ matchFresh' = CASE object = "new" -> TRUE
                        [] object = "current" -> matchFresh
                        [] OTHER -> FALSE
    /\ scheduled' = Sched(TRUE, \/ JumpQueues(target.pageIndex)
                                \/ object = "new"
                                \/ object = "rendered" /\ matchFresh)
    /\ UNCHANGED <<rotation, scale, cl, pageVisibility, effectPending, stale, pagesEle,
                   slot, dom, renderTrace, storeVars, fileVars, lifeVars, pendingDest,
                   reported>>

\* onJumpToDest of a page layer of the last render: doc.getPage is pending.
JumpToDest(pageIndex, bottomOffset, scaleTo) ==
    /\ phase = "mounted"
    /\ pagesEle
    /\ Cardinality(pendingDest) < MaxPending
    /\ lastOp' = Op("jumpToDest", <<pageIndex, bottomOffset, scaleTo>>)
    /\ out' = <<>>
    /\ pendingDest' = IF DestIgnored(pagesEle) THEN pendingDest
                      ELSE pendingDest \cup {Dest(pageIndex, bottomOffset, scaleTo, cl)}
    /\ UNCHANGED <<reactVars, renderVars, storeVars, fileVars, lifeVars, match, reported,
                   scrollTop>>

\* A resolution that multiplies by the scale current when it runs.
DestScaleCurrent(d) == scale

\* The scale the resolution multiplies by: the one its render captured.
DestScale(d) == d.c.scale

\* doc.getPage(...).then of a pending jumpToDest, in an offsetWidth x
\* offsetHeight container: for PageFit the zoom of its render is called, and
\* the container it captured is scrolled when the target page is attached
\* (a hook that throws in the zoom leaves the callback before that).
DestResolved(d, offsetWidth, offsetHeight) ==
    /\ d \in pendingDest
    /\ pendingDest' = pendingDest \ {d}
    /\ lastOp' = Op("destResolved", <<d, offsetWidth, offsetHeight>>)
    /\ LET zooms == d.scaleTo.level = "PageFit" /\ ~ZoomIgnored(pagesEle)
           updateScale == UpdateScale(Level("PageFit"), offsetWidth, offsetHeight)
           s == [ViewerStateOf(d.c) EXCEPT !.scale = updateScale]
           threw == zooms /\ RunHooks(plugins, s).thrower # 0
       IN  /\ IF zooms
              THEN /\ scale' = SetState(scale, updateScale)
                   /\ scheduled' = Sched(TRUE, updateScale # scale)
                   /\ out' = <<Event("onZoom", updateScale)>> \o SetEvents(plugins, s)
                   /\ Store(s)
              ELSE /\ out' = <<>>
                   /\ UNCHANGED <<scale, scheduled, storeVars>>
           /\ scrollTop' = IF DestScrolls(pagesEle) /\ ~threw
                           THEN [page |-> d.pageIndex,
                                 top |-> DestTop(d.scaleTo, d.bottomOffset, DestScale(d))]
                           ELSE scrollTop
    /\ UNCHANGED <<currentPage, rotation, renderVars, fileVars, lifeVars, match, reported>>

Zoom(newScale, via, offsetWidth, offsetHeight) ==
    /\ lastOp' = Op("zoom", <<newScale, via, offsetWidth, offsetHeight>>)
    /\ \E c \in Closures(via, "zoom") :
          IF ZoomIgnored(pagesEle)
          THEN /\ out' = <<>>
               /\ UNCHANGED <<scale, scheduled, storeVars>>
          ELSE LET updateScale == UpdateScale(newScale, offsetWidth, offsetHeight)
                   s == [file |-> FileName, pageIndex |-> c.currentPage,
                         rotation |-> c.rotation, scale |-> updateScale]
               IN  /\ scale' = SetState(scale, updateScale)
                   /\ scheduled' = Sched(TRUE, updateScale # scale)
                   /\ out' = <<Event("onZoom", updateScale)>> \o SetEvents(plugins, s)
                   /\ Store(s)
    /\ UNCHANGED <<currentPage, rotation, renderVars, fileVars, lifeVars, layerVars,
                   scrollTop>>

Rotate(updateRotation, via) ==
    /\ lastOp' = Op("rotate", <<updateRotation, via>>)
    /\ rotation' = SetState(rotation, updateRotation)
    /\ scheduled' = Sched(TRUE, updateRotation # rotation)
    /\ \E c \in Closures(via, "rotate") :
          LET s == [file |-> FileName, pageIndex |-> c.currentPage,
                    rotation |-> updateRotation, scale |-> c.scale]
          IN  /\ out' = SetEvents(plugins, s)
              /\ Store(s)
    /\ UNCHANGED <<currentPage, scale, renderVars, fileVars, lifeVars, layerVars,
                   scrollTop>>

\* setViewerState called by a plugin through the capability object.
SetViewerState(s) ==
    /\ HoldsCapability
    /\ lastOp' = Op("setViewerState", s)
    /\ out' = SetEvents(plugins, s)
    /\ Store(s)
    /\ UNCHANGED <<reactVars, renderVars, fileVars, lifeVars, layerVars, scrollTop>>

GetViewerState ==
    /\ HoldsCapability
    /\ lastOp' = Op("getViewerState", stateRef)
    /\ out' = <<>>
    /\ UNCHANGED <<reactVars, renderVars, storeVars, fileVars, lifeVars, layerVars,
                   scrollTop>>

\* onPageVisibilityChanged of a page layer of the last render.
PageVisibilityChanged(pageIndex, ratio) ==
    /\ phase = "mounted"
    /\ pagesEle
    /\ out' = <<>>
    /\ LET array == [pageVisibility EXCEPT ![pageIndex + 1] = ratio]
           maxRatioPage == MaxRatioPage(array)
       IN  /\ lastOp' = Op("pageVisibilityChanged", <<pageIndex, ratio, maxRatioPage>>)
           /\ pageVisibility' = array
           /\ reported' = [reported EXCEPT ![pageIndex + 1] = ratio]
           /\ currentPage' = IF maxRatioPage # cl.currentPage THEN maxRatioPage
                             ELSE currentPage
           /\ scheduled' = Sched(maxRatioPage # cl.currentPage,
                                 maxRatioPage # cl.currentPage /\ maxRatioPage # currentPage)
    /\ UNCHANGED <<rotation, scale, cl, effectPending, matchFresh, stale, pagesEle, slot, dom,
                   renderTrace, storeVars, fileVars, lifeVars, match, pendingDest,
                   scrollTop>>

\* openFile called by a plugin, through the capability object or the props
\* of renderViewer: every call that passes the check starts a read of its
\* own.
OpenFile(name) ==
    /\ CanCall("first", "openFile") \/ CanCall("render", "openFile")
    /\ OpenIgnored(name) \/ BagCardinality(pendingReads) + Len(delivered) < MaxReads
    /\ lastOp' = Op("openFile", name)
    /\ out' = <<>>
    /\ pendingReads' = IF OpenIgnored(name) THEN pendingReads
                       ELSE pendingReads (+) SetToBag({name})
    /\ UNCHANGED <<reactVars, renderVars, storeVars, delivered, lifeVars, layerVars,
                   scrollTop>>

\* reader.onload of one read resolves its promise, whose continuation calls
\* onOpenFile.
FileLoaded(name) ==
    /\ BagIn(name, pendingReads)
    /\ pendingReads' = pendingReads (-) SetToBag({name})
    /\ delivered' = Append(delivered, name)
    /\ out' = <<Event("onOpenFile", name)>>
    /\ lastOp' = Op("fileLoaded", name)
    /\ UNCHANGED <<reactVars, renderVars, storeVars, lifeVars, layerVars, scrollTop>>

\* ------------------------------------------------------------------ inputs
InitialPages == 0..NumPages

PageIndices == -1..NumPages

Vias == {"first", "render", "kept"}

\* The handlers a plugin may keep whose effect depends on their render.
Handlers == {"rotate", "zoom"}

\* States a plugin passes to setViewerState.
DirectStates ==
    { [file |-> FileName, pageIndex |-> NumPages - 1, rotation |-> 180, scale |-> One] }

Ratios == 0..RatioDen

\* The widest and lowest container.
WideWidth == SCROLL_BAR_WIDTH + MaxExtent

LowHeight == 2 * PAGE_PADDING + 1

\* The destinations of the links: the last page, by offset and by fit.
DestScales == {Level("PageFit"), Level("ActualSize")}

\* Arguments of rotate: quarter turns, a full turn, a half quarter, a
\* quarter turn backwards.
RotateArgs == {0, 90, 180, 270, 360, 45, -90}

\* Targets of jumpToMatch: the "no match" sentinel, a match on the last
\* page, a match on a page past the end.
Matches ==
    { NoMatch, [matchIndex |-> 0, pageIndex |-> NumPages - 1],
      [matchIndex |-> 1, pageIndex |-> NumPages] }

\* The first and the last page.
EndPages == {0, NumPages - 1}

\* The initial states with at most one plugin.
InitFew == Init /\ Len(plugins) <= 1

\* The initial states with plugins that rewrite nothing.
InitQuiet == Start(QuietLists)

\* The initial states with plugins of which some may throw.
InitFault == Start(FaultLists)

\* The initial state without plugins.
InitBare == Init /\ plugins = <<>>

\* ----------------------------------------------------------- specifications
\* The state store and the plugin protocol: every caller of setViewerState,
\* with rotate and zoom from every holder of the handlers, the lifecycle and
\* the renders.
Next ==
    \/ \E ip \in {0, 1}, ds \in {Undefined, Level("PageWidth")} : Mount(ip, ds)
    \/ MountEffects(WideWidth, LowHeight)
    \/ Unmount
    \/ Render
    \/ Effect
    \/ JumpToPage(1)
    \/ \E v \in Vias : Rotate(90, v)
    \/ \E v \in Vias : Zoom(Level("PageWidth"), v, WideWidth, LowHeight)
    \/ \E s \in DirectStates : SetViewerState(s)
    \/ GetViewerState
    \/ \E handler \in Handlers : Keep(handler)

Spec == Init /\ [][Next]_vars

\* Navigation: jumpToPage with every index, the renders and the page-change
\* effect.
NextNav ==
    \/ \E ip \in InitialPages : Mount(ip, Undefined)
    \/ MountEffects(WideWidth, LowHeight)
    \/ Unmount
    \/ Render
    \/ ParentRender
    \/ Effect
    \/ \E i \in PageIndices : JumpToPage(i)
    \/ Rotate(90, "render")

SpecNav == Init /\ [][NextNav]_vars

\* Navigation with at most one plugin, where React runs every re-render and
\* every effect it has scheduled.
SpecNavFair ==
    /\ InitFew
    /\ [][NextNav]_vars
    /\ WF_vars(MountEffects(WideWidth, LowHeight))
    /\ WF_vars(Render)
    /\ WF_vars(Effect)

\* Zoom with every argument: through the handlers of the last render in
\* every container size, through those of the first render and those a
\* plugin has kept in the widest and lowest container.
NextZoom ==
    \/ \E ds \in {Undefined, Level("PageFit"), Number(Zero)} : Mount(0, ds)
    \/ \E w \in Widths, h \in Heights : MountEffects(w, h)
    \/ Unmount
    \/ Render
    \/ Effect
    \/ JumpToPage(1)
    \/ \E a \in ZoomArgs, w \in Widths, h \in Heights : Zoom(a, "render", w, h)
    \/ \E a \in ZoomArgs, v \in {"first", "kept"} : Zoom(a, v, WideWidth, LowHeight)
    \/ Keep("zoom")

SpecZoom == InitFew /\ [][NextZoom]_vars

\* The visibility reports of the page layers of a viewer without plugins.
NextVis ==
    \/ Mount(0, Undefined)
    \/ MountEffects(WideWidth, LowHeight)
    \/ Render
    \/ ParentRender
    \/ Effect
    \/ \E p \in 0..(NumPages - 1), r \in Ratios : PageVisibilityChanged(p, r)

SpecVis == InitBare /\ [][NextVis]_vars

\* openFile and the file reads it starts.
NextFile ==
    \/ Mount(0, Undefined)
    \/ MountEffects(WideWidth, LowHeight)
    \/ Unmount
    \/ \E n \in FileNames : OpenFile(n)
    \/ \E n \in FileNames : FileLoaded(n)
    \/ JumpToPage(1)

SpecFile == InitFew /\ [][NextFile]_vars

\* The named actions of the links in the page layers.
NextAction ==
    \/ \E ip \in {0, NumPages - 1} : Mount(ip, Undefined)
    \/ MountEffects(WideWidth, LowHeight)
    \/ Unmount
    \/ Render
    \/ Effect
    \/ \E a \in NamedActions : ExecuteNamedAction(a)

SpecAction == InitFew /\ [][NextAction]_vars

\* The destinations of the links in the page layers, with the navigation,
\* the zoom and the unmount that may come before their page arrives.
NextDest ==
    \/ Mount(0, Undefined)
    \/ MountEffects(WideWidth, LowHeight)
    \/ Unmount
    \/ Render
    \/ Effect
    \/ JumpToPage(1)
    \/ Zoom(Number(Rat(2, 1)), "render", WideWidth, LowHeight)
    \/ \E st \in DestScales : JumpToDest(NumPages - 1, 1, st)
    \/ \E d \in pendingDest : DestResolved(d, WideWidth, LowHeight)

SpecDest == InitFew /\ [][NextDest]_vars

\* The calls a plugin makes through the capability object it got at install,
\* on a mounted viewer.
NextCap ==
    \/ Mount(0, Undefined)
    \/ MountEffects(WideWidth, LowHeight)
    \/ Render
    \/ Effect
    \/ \E i \in 0..(NumPages - 1) : JumpToPage(i)
    \/ Rotate(90, "first")
    \/ Rotate(90, "kept")
    \/ Keep("rotate")
    \/ Zoom(Level("PageWidth"), "first", WideWidth, LowHeight)
    \/ GetViewerState

SpecCap == InitQuiet /\ [][NextCap]_vars

\* The callers of setViewerState with a plugin whose hook may throw.
NextFault ==
    \/ Mount(0, Undefined)
    \/ MountEffects(WideWidth, LowHeight)
    \/ Unmount
    \/ Render
    \/ Effect
    \/ JumpToPage(1)
    \/ \E r \in {90, 180}, v \in Vias : Rotate(r, v)
    \/ \E s \in DirectStates : SetViewerState(s)
    \/ GetViewerState
    \/ Keep("rotate")

SpecFault == InitFault /\ [][NextFault]_vars

\* Everything that sets the current page, with at most one plugin: the
\* mount with every initialPage, jumpToPage around both ends of the
\* document, jumpToMatch, the named actions, and the first or the last page
\* coming wholly into view.
NextPage ==
    \/ \E ip \in -1..NumPages : Mount(ip, Undefined)
    \/ MountEffects(WideWidth, LowHeight)
    \/ Render
    \/ Effect
    \/ \E i \in {-1, NumPages - 1, NumPages} : JumpToPage(i)
    \/ \E target \in Matches, object \in MatchObjects : JumpToMatch(target, object)
    \/ \E a \in NamedActions : ExecuteNamedAction(a)
    \/ \E p \in EndPages : PageVisibilityChanged(p, RatioDen)

SpecPage == InitFew /\ [][NextPage]_vars

\* rotate with every argument, from both holders of the handler.
NextRotate ==
    \/ Mount(0, Undefined)
    \/ MountEffects(WideWidth, LowHeight)
    \/ Unmount
    \/ Render
    \/ Effect
    \/ JumpToPage(1)
    \/ \E r \in RotateArgs, v \in Vias : Rotate(r, v)
    \/ Keep("rotate")

SpecRotate == InitQuiet /\ [][NextRotate]_vars

\* ================================================================== claims
HookedPlugins == SelectSeq(Indices(plugins), LAMBDA i : plugins[i].onViewerStateChange # "none")

\* C1: setViewerState(next) calls the onViewerStateChange hook of exactly the
\* plugins that define one, in plugin-list order; the first hook receives
\* next and every other hook the output of the hook before it; the output of
\* the last hook (next itself when no plugin has the hook) becomes the
\* canonical state.  With P1 setting rotation to 90 and P2 incrementing
\* rotation the canonical state has rotation 91.
C1_HookFold ==
    lastSet.called =>
        LET tr == lastSet.trace IN
        /\ [k \in 1..Len(tr) |-> tr[k].plugin] = HookedPlugins
        /\ \A k \in 1..Len(tr) :
              /\ tr[k].input = IF k = 1 THEN lastSet.arg ELSE tr[k - 1].output
              /\ tr[k].output = ApplyHook(plugins[tr[k].plugin].onViewerStateChange,
                                          tr[k].input)
        /\ stateRef = IF tr = <<>> THEN lastSet.arg ELSE tr[Len(tr)].output
        /\ (/\ Len(plugins) = 2
            /\ plugins[1].onViewerStateChange = "set90"
            /\ plugins[2].onViewerStateChange = "inc") => stateRef.rotation = 91

\* A rotate(90) has gone through the hooks of P1 (set90) and P2 (inc).
C1_Witness ==
    /\ OpName(lastOp) = "rotate"
    /\ Len(lastSet.trace) = 2
    /\ plugins[1].onViewerStateChange = "set90"
    /\ plugins[2].onViewerStateChange = "inc"
    /\ stateRef.rotation = 91

SetCalled(events) == \E k \in 1..Len(events) : Cb(events[k]) = "setViewerState"

\* C2: getViewerState returns the argument of the most recent setViewerState
\* (from whatever caller) after all hooks, however many times it is called;
\* the canonical state changes only in a step that calls setViewerState, and
\* never in a getViewerState step.
C2_RoundTrip ==
    /\ [](OpName(lastOp) = "getViewerState" =>
            /\ OpArg(lastOp) = stateRef
            /\ OpArg(lastOp) = IF lastSet.called THEN RunHooks(plugins, lastSet.arg).state
                            ELSE InitialViewerState)
    /\ [][/\ stateRef' # stateRef => SetCalled(out')
          /\ OpName(lastOp') = "getViewerState" => stateRef' = stateRef /\ ~SetCalled(out')]_vars

\* getViewerState was called twice in a row after a setViewerState whose
\* argument the hooks changed.
C2_Witness ==
    /\ OpName(lastOp) = "getViewerState"
    /\ out = <<>>
    /\ lastSet.called
    /\ OpArg(lastOp) # lastSet.arg
    /\ OpArg(lastOp).rotation = 181

OutOfRange(index) == index < 0 \/ index >= NumPages

\* C3: a jumpToPage(index) with index < 0 or index >= numPages changes
\* neither the current page nor the scroll position nor the canonical state,
\* calls no host callback and no plugin hook, and schedules neither a
\* re-render nor an effect.
C3_JumpOutOfRange ==
    [][(OpName(lastOp') = "jumpToPage" /\ OutOfRange(OpArg(lastOp'))) =>
          /\ UNCHANGED <<currentPage, scrollTop, stateRef, lastSet, effectPending, cl,
                         scheduled>>
          /\ out' = <<>>]_vars

\* jumpToPage(numPages) was called on a mounted viewer whose pages are attached.
C3_Witness ==
    /\ OpName(lastOp) = "jumpToPage"
    /\ OpArg(lastOp) = NumPages
    /\ phase = "mounted"
    /\ pagesEle
    /\ currentPage = NumPages - 1

IsListOrder(log, wanted) ==
    /\ \A k \in 1..Len(log) : \A l \in 1..Len(log) : k < l => log[k] < log[l]
    /\ {log[k] : k \in 1..Len(log)} = wanted

WithInstall == {i \in 1..Len(plugins) : plugins[i].install}

WithUninstall == {i \in 1..Len(plugins) : plugins[i].uninstall}

\* C5: no install and no uninstall has been called before the effects of
\* the mount run; once they have run, install has been called exactly once
\* on each plugin that defines it, in plugin-list order; uninstall has been called on no
\* plugin before unmount and, after unmount, exactly once on each plugin
\* that defines it, in plugin-list order too; no uninstall comes before an
\* install.
C5_Lifecycle ==
    /\ (phase = "init" \/ mountPending # {}) => installLog = <<>> /\ uninstallLog = <<>>
    /\ (phase # "init" /\ mountPending = {}) => IsListOrder(installLog, WithInstall)
    /\ phase = "mounted" => uninstallLog = <<>>
    /\ phase = "unmounted" => IsListOrder(uninstallLog, WithUninstall)

\* A viewer with two plugins that define uninstall was mounted and unmounted.
C5_Witness ==
    /\ phase = "unmounted"
    /\ uninstallLog = <<1, 2>>
    /\ Len(installLog) >= 1

RenderingPlugins == SelectSeq(Indices(plugins), LAMBDA i : plugins[i].renderViewer # "none")

\* C7: at each render the renderViewer hooks are called in plugin-list
\* order, the first with the two-level baseline chain and each other with
\* the chain the hook before it returned; the chain the last hook returned
\* is the one materialized; when every plugin wraps the chain in one new
\* outer level the materialized tree is baseDepth + numPlugins levels deep
\* and its outermost level is the last plugin's.
C7_SlotFold ==
    phase # "init" =>
        LET tr == renderTrace IN
        /\ [k \in 1..Len(tr) |-> tr[k].plugin] = RenderingPlugins
        /\ \A k \in 1..Len(tr) :
              tr[k].input = IF k = 1 THEN BaseSlot ELSE tr[k - 1].output
        /\ slot = IF tr = <<>> THEN BaseSlot ELSE tr[Len(tr)].output
        /\ dom = RenderSlot(slot)
        /\ (\A i \in 1..Len(plugins) : plugins[i].renderViewer = "wrap") =>
              /\ Depth(dom) = Len(BaseSlot) + Len(plugins)
              /\ Len(plugins) > 0 => dom[1] = [kind |-> "wrap", by |-> Len(plugins)]

\* Two wrapping plugins have rendered.
C7_Witness ==
    /\ phase = "mounted"
    /\ Len(plugins) = 2
    /\ \A i \in 1..2 : plugins[i].renderViewer = "wrap"
    /\ Depth(dom) = 4
    /\ dom[1].by = 2

InRange(index) == 0 <= index /\ index < NumPages

\* The last step called the host's onPageChange with currentPage = index and
\* setViewerState with pageIndex = index.
Notified(index) ==
    \E k \in 1..Len(out) : \E l \in 1..Len(out) :
        IF Cb(out[k]) = "onPageChange" /\ Cb(out[l]) = "setViewerState"
        THEN Val(out[k]) = index /\ Val(out[l]).pageIndex = index /\ k < l
        ELSE FALSE

\* The index of the jumpToPage call the last step was (-2 when it was
\* another operation).
JumpedTo == IF OpName(lastOp) = "jumpToPage" THEN OpArg(lastOp) ELSE -2

\* The last step was jumpToPage(index) on a mounted viewer.
Jumped(index) == JumpedTo = index /\ phase = "mounted"

\* jumpToPage(index) is pre-empted: the viewer is unmounted or the current
\* page is set to another page.
Preempted(index) == phase = "unmounted" \/ currentPage # index

\* C4 as claimed: every jumpToPage(index) with 0 <= index < numPages sets
\* the current page to index and is eventually followed by
\* onPageChange(index) and a setViewerState with pageIndex = index, also
\* when index is the page already current.
C4_Original ==
    /\ [][(OpName(lastOp') = "jumpToPage" /\ InRange(OpArg(lastOp'))) =>
             currentPage' = OpArg(lastOp')]_vars
    /\ \A index \in 0..(NumPages - 1) : (JumpedTo = index) ~> Notified(index)

\* C4, amended: a jumpToPage(index) with 0 <= index < numPages on a mounted
\* viewer sets the current page to index and, when the pages are attached,
\* the scroll position to the offset of page index; when index differs from
\* the page of the last render it is eventually followed by
\* onPageChange(index) and a setViewerState with pageIndex = index, unless
\* the viewer is unmounted or the current page changes again first; when
\* index is the current page, the call leaves the current page, the
\* canonical state, the handlers and the pending effect as they are and
\* calls nothing, and a run of Inner that bails out commits nothing, calls
\* neither onPageChange nor setViewerState and leaves no effect pending that
\* was not.
C4_JumpNotifies ==
    /\ [][(OpName(lastOp') = "jumpToPage" /\ InRange(OpArg(lastOp')) /\ phase = "mounted") =>
             /\ currentPage' = OpArg(lastOp')
             /\ pagesEle => scrollTop' = OffsetTop(OpArg(lastOp'))
             /\ OpArg(lastOp') = currentPage =>
                   /\ UNCHANGED <<currentPage, stateRef, lastSet, effectPending, cl>>
                   /\ out' = <<>>]_vars
    /\ [][(OpName(lastOp') = "render" /\ OpArg(lastOp') = "bailout") =>
             /\ UNCHANGED <<currentPage, stateRef, lastSet, effectPending, cl, scrollTop>>
             /\ \A k \in 1..Len(out') : Cb(out'[k]) = "renderViewer"]_vars
    /\ \A index \in 0..(NumPages - 1) :
          (JumpedTo = index /\ index # cl.currentPage) ~> (Notified(index) \/ Preempted(index))

\* jumpToPage(1) has set the current page and the scroll position while the
\* last render still shows page 0.
C4_Witness ==
    /\ Jumped(1)
    /\ cl.currentPage = 0
    /\ currentPage = 1
    /\ scrollTop = OffsetTop(1)
    /\ ~effectPending

\* index is the smallest index that holds the maximum of array.
IsFirstMax(array, index) ==
    /\ \A j \in 1..Len(array) : array[j] <= array[index + 1]
    /\ \A j \in 1..index : array[j] < array[index + 1]

\* C6: a visibility report stores the ratio of its page; the page it
\* chooses is the smallest index holding the maximum ratio (for ratios
\* low, high, high it is index 1); the current page changes only to the
\* chosen page and only when the chosen page differs from it, and it is the
\* chosen page afterwards whenever the handler saw the current page.
C6_FirstMaxWins ==
    [][OpName(lastOp') = "pageVisibilityChanged" =>
          /\ pageVisibility' = [pageVisibility EXCEPT ![OpArg(lastOp')[1] + 1] = OpArg(lastOp')[2]]
          /\ IsFirstMax(pageVisibility', OpArg(lastOp')[3])
          /\ (/\ pageVisibility'[1] < pageVisibility'[2]
              /\ pageVisibility'[2] = pageVisibility'[3]
              /\ \A j \in 1..NumPages : pageVisibility'[j] <= pageVisibility'[2])
                 => OpArg(lastOp')[3] = 1
          /\ currentPage' # currentPage =>
                currentPage' = OpArg(lastOp')[3] /\ OpArg(lastOp')[3] # currentPage
          /\ cl.currentPage = currentPage => currentPage' = OpArg(lastOp')[3]]_vars

\* Two pages tie for the maximum after a report of the second of them, and
\* the first of them is the current page.
C6_Witness ==
    /\ OpName(lastOp) = "pageVisibilityChanged"
    /\ OpArg(lastOp)[1] = 2
    /\ OpArg(lastOp)[3] = 1
    /\ pageVisibility[2] = RatioDen
    /\ pageVisibility[3] = RatioDen
    /\ pageVisibility[1] < RatioDen
    /\ currentPage = 1

\* The names of FileNames whose extension is not pdf in any case.
NotPdf == { <<"a", ".", "t", "x", "t">>, <<"a", ".", "p", "d", "f", ".", "t", "x", "t">> }

\* C8: no file read is ever pending for, and the host's onOpenFile is never
\* called with, a name whose extension is not pdf, whatever else happens;
\* an openFile with such a name starts nothing.
C8_RejectsOtherExtensions ==
    /\ [](\A n \in NotPdf :
            /\ ~BagIn(n, pendingReads)
            /\ \A k \in 1..Len(delivered) : delivered[k] # n
            /\ \A k \in 1..Len(out) : Cb(out[k]) = "onOpenFile" => Val(out[k]) # n)
    /\ [][(OpName(lastOp') = "openFile" /\ OpArg(lastOp') \in NotPdf) =>
             UNCHANGED <<pendingReads, delivered>> /\ out' = <<>>]_vars

\* openFile("a.pdf.txt") was called after "a.PDF" had been read and handed
\* to the host.
C8_Witness ==
    /\ OpName(lastOp) = "openFile"
    /\ OpArg(lastOp) = <<"a", ".", "p", "d", "f", ".", "t", "x", "t">>
    /\ delivered = << <<"a", ".", "P", "D", "F">> >>

\* C9: a zoom called while the page container is not attached changes
\* neither the scale nor the canonical state, and calls neither the host's
\* onZoom nor any hook.
C9_ZoomUnmounted ==
    [][(OpName(lastOp') = "zoom" /\ ~pagesEle) =>
          /\ UNCHANGED <<scale, stateRef, lastSet>>
          /\ out' = <<>>]_vars

\* zoom was called on a mounted viewer whose plugin replaced the chain, so
\* that the page container never was attached.
C9_Witness ==
    /\ OpName(lastOp) = "zoom"
    /\ phase = "mounted"
    /\ ~pagesEle

\* The fraction s equals num / den.
ScaleIs(s, num, den) == s[1] * den = num * s[2]

\* The fraction s is at most num / den.
ScaleAtMost(s, num, den) == s[1] * den <= num * s[2]

\* The scale the claim gives for zoom(newScale) in a W x H container.
ClaimedScale(s, newScale, W, H) ==
    CASE newScale.level = "PageFit" ->
            /\ ScaleIs(s, W - 17, PageWidth) \/ ScaleIs(s, H - 16, PageHeight)
            /\ ScaleAtMost(s, W - 17, PageWidth)
            /\ ScaleAtMost(s, H - 16, PageHeight)
      [] newScale.level = "PageWidth" -> ScaleIs(s, W - 17, PageWidth)
      [] newScale.level = "ActualSize" -> ScaleIs(s, 1, 1)
      [] OTHER -> s = newScale.value

\* C10: after a zoom(newScale) with the W x H page container attached, the
\* scale is min((W-17)/w, (H-16)/h) for PageFit, (W-17)/w for PageWidth, 1
\* for ActualSize and newScale for a number; the host's onZoom got that
\* scale and setViewerState was called with it as scale.
C10_ZoomScale ==
    (OpName(lastOp) = "zoom" /\ pagesEle) =>
        /\ ClaimedScale(scale, OpArg(lastOp)[1], OpArg(lastOp)[3], OpArg(lastOp)[4])
        /\ out[1] = Event("onZoom", scale)
        /\ Cb(out[2]) = "setViewerState"
        /\ Val(out[2]).scale = scale
        /\ lastSet.arg.scale = scale

\* A zoom(PageFit) in a container whose height is the tighter fit.
C10_Witness ==
    /\ OpName(lastOp) = "zoom"
    /\ pagesEle
    /\ OpArg(lastOp)[1].level = "PageFit"
    /\ ScaleIs(scale, OpArg(lastOp)[4] - 16, PageHeight)
    /\ ~ScaleIs(scale, OpArg(lastOp)[3] - 17, PageWidth)

PageActions == {"FirstPage", "LastPage", "NextPage", "PrevPage"}

\* C11: executeNamedAction sets the current page to 0 for FirstPage, to
\* numPages - 1 for LastPage, to c + 1 for NextPage and to c - 1 for
\* PrevPage, where c is the current page the handler sees (the page of the
\* last render, which is the current page once React has re-rendered);
\* NextPage at c = numPages - 1 and PrevPage at c = 0 change neither the
\* current page nor the scroll position, and any other action changes
\* neither of them nor the canonical state; no action calls a callback.
C11_NamedActions ==
    [][OpName(lastOp') = "executeNamedAction" =>
          LET action == OpArg(lastOp')
              c == cl.currentPage
          IN  /\ action = "FirstPage" => currentPage' = 0
              /\ action = "LastPage" => currentPage' = NumPages - 1
              /\ (action = "NextPage" /\ c < NumPages - 1) => currentPage' = c + 1
              /\ (action = "PrevPage" /\ c > 0) => currentPage' = c - 1
              /\ (action = "NextPage" /\ c = NumPages - 1) =>
                    UNCHANGED <<currentPage, scrollTop>>
              /\ (action = "PrevPage" /\ c = 0) => UNCHANGED <<currentPage, scrollTop>>
              /\ action \notin PageActions => UNCHANGED <<currentPage, scrollTop>>
              /\ UNCHANGED <<stateRef, lastSet>>
              /\ out' = <<>>]_vars

\* NextPage was executed on the last page, which a LastPage had made the
\* current page.
C11_Witness ==
    /\ OpName(lastOp) = "executeNamedAction"
    /\ OpArg(lastOp) = "NextPage"
    /\ cl.currentPage = NumPages - 1
    /\ currentPage = NumPages - 1
    /\ scrollTop = OffsetTop(NumPages - 1)

\* C12: when the viewer was unmounted after a jumpToDest and before its page
\* arrives, the resolution changes neither the scroll position nor the
\* scale nor the canonical state and calls neither the host's onZoom nor any
\* hook, for a fit destination as for an offset destination.
C12_DestAfterUnmount ==
    [][(OpName(lastOp') = "destResolved" /\ phase = "unmounted") =>
          /\ UNCHANGED <<scrollTop, scale, stateRef, lastSet, currentPage, rotation>>
          /\ out' = <<>>]_vars

\* The page of a fit destination arrived after the unmount, the scroll
\* position being that of an earlier jumpToPage(1).
C12_Witness ==
    /\ OpName(lastOp) = "destResolved"
    /\ OpArg(lastOp)[1].scaleTo.level = "PageFit"
    /\ phase = "unmounted"
    /\ scrollTop = OffsetTop(1)
    /\ pendingDest = {}

\* The fraction top equals factor times the fraction s.
TopIs(top, factor, s) == top[1] * s[2] = factor * s[1] * top[2]

\* C18: a pending jumpToDest holds the scale its render saw when it was
\* called; nothing but the arrival of its page removes it, whatever
\* jumpToPage or zoom completes in between; and when the page arrives with
\* the container attached the scroll position becomes page p's offset plus
\* (height - bottom) times that captured scale (plus 0 for a fit
\* destination), replacing the scroll position of any later navigation.
C18_StaleDestApplied ==
    /\ [][OpName(lastOp') = "jumpToDest" =>
             pendingDest' = pendingDest \cup
                 {Dest(OpArg(lastOp')[1], OpArg(lastOp')[2], OpArg(lastOp')[3], cl)}]_vars
    /\ [][OpName(lastOp') # "destResolved" => pendingDest \subseteq pendingDest']_vars
    /\ [][(OpName(lastOp') = "destResolved" /\ pagesEle) =>
             LET d == OpArg(lastOp')[1] IN
             /\ d \in pendingDest
             /\ scrollTop'.page = d.pageIndex
             /\ IF d.scaleTo.level = "PageFit" THEN scrollTop'.top = Zero
                ELSE TopIs(scrollTop'.top, PageHeight - d.bottomOffset, d.c.scale)]_vars

\* The page of an offset destination arrived after a jumpToPage(1) and a
\* zoom had completed: the scroll position left page 1 for the destination,
\* with the scale from before the zoom.
C18_Witness ==
    /\ OpName(lastOp) = "destResolved"
    /\ OpArg(lastOp)[1].scaleTo.level = "ActualSize"
    /\ OpArg(lastOp)[1].c.currentPage = 0
    /\ OpArg(lastOp)[1].c.scale = One
    /\ currentPage = 1
    /\ scale = Rat(2, 1)
    /\ pagesEle
    /\ scrollTop = [page |-> NumPages - 1, top |-> Rat(PageHeight - 1, 1)]

\* C13: the ratios persist across renders: the page every visibility report
\* chooses is the smallest index whose most recently reported ratio is
\* maximal, whatever re-render came between the reports.
C13_RatiosPersist ==
    [][OpName(lastOp') = "pageVisibilityChanged" =>
          IsFirstMax(reported', OpArg(lastOp')[3])]_vars

\* C14: on a mounted viewer whose hooks are the identity, after any
\* jumpToPage, zoom and rotate calls through the capability object of
\* install, once React has re-rendered and the page-change effect has run,
\* the canonical state has the controller's current page, rotation and
\* scale.
C14_CapabilityConsistent ==
    (phase = "mounted" /\ mountPending = {} /\ pagesEle /\ ~Dirty /\ ~effectPending) =>
        /\ stateRef.pageIndex = currentPage
        /\ stateRef.rotation = rotation
        /\ stateRef.scale = scale

Quadrants == {0, 90, 180, 270}

\* C15: when no plugin rewrites the rotation in a hook or calls
\* setViewerState itself, the rotation of the controller and the rotation
\* of the canonical state are always one of 0, 90, 180, 270, whatever the
\* arguments of the rotate calls.
C15_RotationQuadrant ==
    /\ rotation \in Quadrants
    /\ stateRef.rotation \in Quadrants

\* C16: the current page is always a page of the document, 0 <= currentPage
\* < numPages, after any mount (whatever initialPage), jumpToPage,
\* jumpToMatch (also with the "no match" sentinel -1), executeNamedAction
\* and visibility report; so are the page the handlers see and the page of
\* the canonical state.
C16_PageInRange ==
    /\ InRange(currentPage)
    /\ InRange(cl.currentPage)
    /\ InRange(stateRef.pageIndex)

\* jumpToMatch was called with the "no match" sentinel while the last page
\* was the current page.
C16_Witness ==
    /\ OpName(lastOp) = "jumpToMatch"
    /\ OpArg(lastOp).pageIndex = -1
    /\ match = NoMatch
    /\ currentPage = NumPages - 1
    /\ cl.currentPage = NumPages - 1

\* A hook threw in one of the calls.
Threw(events) == \E k \in 1..Len(events) : Cb(events[k]) = "hookThrew"

\* C17: in a step in which an onViewerStateChange hook throws, the hooks
\* called are those of plugins before the thrower, none is called after
\* the throw, and the canonical state is the one from before the step, which
\* getViewerState returns afterwards; the error leaves setViewerState and its
\* caller: nothing of the handler runs after it, and when the caller is the
\* page-change effect React unmounts the viewer.
C17_ThrowingHook ==
    /\ [][Threw(out') =>
             LET k == CHOOSE k \in 1..Len(out') : Cb(out'[k]) = "hookThrew"
                 thrower == Val(out'[k]).plugin
             IN  /\ stateRef' = stateRef
                 /\ lastSet'.thrower = thrower
                 /\ Throws(plugins[thrower].onViewerStateChange, Val(out'[k]).input)
                 /\ \A j \in 1..Len(out') :
                       Cb(out'[j]) = "onViewerStateChange" =>
                           j < k /\ Val(out'[j]).plugin < thrower
                 /\ \A j \in (k + 1)..Len(out') : Cb(out'[j]) = "uninstall"
                 /\ OpName(lastOp') = "effect" => phase' = "unmounted"]_vars
    /\ [](OpName(lastOp) = "getViewerState" => OpArg(lastOp) = stateRef)

\* getViewerState was called after a rotate(90) that went through and a
\* setViewerState in which the hook of the first of two hooked plugins threw.
C17_Witness ==
    /\ OpName(lastOp) = "getViewerState"
    /\ Len(plugins) = 2
    /\ plugins[2].onViewerStateChange = "id"
    /\ lastSet.thrower = 1
    /\ lastSet.trace = <<>>
    /\ lastSet.arg.rotation = 180
    /\ stateRef.rotation = 90
    /\ OpArg(lastOp).rotation = 90

\* The plugin whose renderViewer, onDocumentLoad or onViewerStateChange hook
\* the event is a call of, 0 for any other event.
HookPlugin(event) ==
    CASE Cb(event) \in {"renderViewer", "onViewerStateChange", "hookThrew"} ->
            Val(event).plugin
      [] Cb(event) = "pluginDocumentLoad" -> Val(event)
      [] OTHER -> 0

\* Plugin i's cb (install or uninstall) was called before the step (log) or
\* earlier in the step than its k-th call.
CalledBefore(cb, i, log, events, k) ==
    \/ \E j \in 1..Len(log) : log[j] = i
    \/ \E j \in 1..(k - 1) : Cb(events[j]) = cb /\ Val(events[j]) = i

\* C19: no renderViewer, onDocumentLoad or onViewerStateChange hook of a
\* plugin is called before the install of that plugin (when it has one) or
\* after its uninstall (when it has one), also not by a call a plugin makes
\* after the unmount through the capability object it kept.
C19_HooksWhileInstalled ==
    [][\A k \in 1..Len(out') :
          LET i == HookPlugin(out'[k]) IN
          i # 0 =>
              /\ plugins[i].install => CalledBefore("install", i, installLog, out', k)
              /\ plugins[i].uninstall =>
                    ~CalledBefore("uninstall", i, uninstallLog, out', k)]_vars

====
